---- MODULE Spec2Model ----
(***************************************************************************)
(* Model of the btrfs unit tests of the sleuthkit: the text parsers of     *)
(* unittests/textparser.py and the test class of unittests/test_btrfs.py   *)
(* (class set-up, the attribute checks, test_filedata, the suite of        *)
(* unittests/test_btrfs_all.py) and ImageFactory of unittests/testimage.py *)
(* (the hash file it writes; create, delete, mount and umount with the     *)
(* files, mounts and loop devices they act on).                            *)
(*                                                                         *)
(* Text.  A Python string is a sequence of tokens.  A token is one         *)
(* character ("/", "|", "$", "a", ...), one of the multi-character words   *)
(* of Words, or a numeral.  "w in s" for a word w is membership of the     *)
(* token w in s.  The output of a tool is the sequence of its lines        *)
(* (data.decode('utf-8').splitlines()).                                    *)
(*                                                                         *)
(* Values.  Python keeps a field as int when int() accepts it and as str   *)
(* otherwise; I(n) and S(s) are the two kinds of value.                    *)
(***************************************************************************)
EXTENDS Integers, Sequences, FiniteSets, TLC

VARIABLES
    policy,     \* the user options ignore_ext_backup, fix_subvols, fix_size
    tsk,        \* TestBtrfs.tsk, the set object shared by every test class
    stat,       \* TestBtrfs.stat, the set object shared by every test class
    cur,        \* position in the suite: the test class being run
    phase,      \* "idle", "testing", "failed" (setUpClass raised)
    tix,        \* position in TestOrder of the next test method to run
    result,     \* outcome of each test method of the current class
    cmp,        \* the locals stat and tsk of the test method that ran last
    err,        \* the exception that left setUpClassCustom
    tsk_files,  \* local of setUpClassCustom: what parse_fls_files returned
    tsk_inodes, \* local of setUpClassCustom: what parse_ils returned
    ownTsk,     \* history: the records merged from the current image's output
    ownStat,    \* history: the records parsed from the current image's stat output
    fskind,     \* history: kind of the entry behind each current stat record
    pIn,        \* parser harness: the raw tool output
    pOut,       \* parser harness: what the parser returned or raised
    pTool,      \* parser harness: the function that is called on pIn
    setup_errors \* the runner's result: the classes whose setUpClass raised

vars == <<policy, tsk, stat, cur, phase, tix, result, cmp, err,
          tsk_files, tsk_inodes, ownTsk, ownStat, fskind, pIn, pOut, pTool,
          setup_errors>>

-----------------------------------------------------------------------------
(* Text *)

Words == {"snapshot", "subvolume", "directory", "ext2_saved", " -> "}

\* the word without its last character (s[:-1])
ChopWord(w) ==
    CASE w = "snapshot"   -> "snapsho"
      [] w = "subvolume"  -> "subvolum"
      [] w = "directory"  -> "director"
      [] w = "ext2_saved" -> "ext2_save"
      [] w = " -> "       -> " ->"
      [] OTHER            -> w

Numerals == {"0", "00", "1", "2", "5", "6", "7", "77", "1000"}
NegNumerals == {"-1"}

IntOf(t) ==
    CASE t = "0" -> 0 [] t = "00" -> 0
      [] t = "1" -> 1 [] t = "2" -> 2 [] t = "5" -> 5
      [] t = "6" -> 6 [] t = "7" -> 7 [] t = "77" -> 77 [] t = "1000" -> 1000
      [] t = "-1" -> 0 - 1

I(n) == <<"int", n>>
S(s) == <<"str", s>>
IsI(v) == v[1] = "int"

\* int(s) succeeds
IsInt(s) == Len(s) = 1 /\ s[1] \in Numerals \cup NegNumerals
\* s.isdigit()
IsDigit(s) == Len(s) = 1 /\ s[1] \in Numerals
\* the "try: int(i) except ValueError: i" conversion of parse_ils and parse_stat
Conv(s) == IF IsInt(s) THEN I(IntOf(s[1])) ELSE S(s)

Range(s) == {s[i] : i \in 1..Len(s)}

\* s has at least two characters (s[1] does not raise IndexError)
HasChar1(s) == Len(s) >= 2 \/ (Len(s) = 1 /\ s[1] \in Words)
\* first character of a token; "~" stands for a character that is no token
FirstChar(t) == IF t \in Words THEN "~" ELSE t
\* s[0] and s[1] of a string
Char0(s) == FirstChar(s[1])
Char1(s) == IF s[1] \in Words THEN "~" ELSE FirstChar(s[2])

\* s.split(sep)
RECURSIVE Split(_, _)
Split(s, sep) ==
    IF \A i \in 1..Len(s) : s[i] # sep THEN <<s>>
    ELSE LET k == CHOOSE i \in 1..Len(s) :
                      s[i] = sep /\ \A j \in 1..(i-1) : s[j] # sep
         IN  <<SubSeq(s, 1, k-1)>> \o Split(SubSeq(s, k+1, Len(s)), sep)

\* sep.join(parts)
RECURSIVE Join(_, _)
Join(parts, sep) ==
    IF Len(parts) = 0 THEN <<>>
    ELSE IF Len(parts) = 1 THEN parts[1]
    ELSE parts[1] \o <<sep>> \o Join(Tail(parts), sep)

\* s.find(w): 0-based token position of the first w, -1 when absent
Find(s, w) ==
    IF w \in Range(s)
    THEN (CHOOSE i \in 1..Len(s) : s[i] = w /\ \A j \in 1..(i-1) : s[j] # w) - 1
    ELSE 0 - 1

\* s[1:end] for the end that s.find returned (a negative end counts from the
\* right: s[1:-1] drops the last character as well)
Slice1(s, end) ==
    IF end >= 0 THEN SubSeq(s, 2, end)
    ELSE IF Len(s) < 2 THEN <<>>
    ELSE IF s[Len(s)] \in Words
         THEN SubSeq(s, 2, Len(s) - 1) \o <<ChopWord(s[Len(s)])>>
         ELSE SubSeq(s, 2, Len(s) - 1)

\* the non-empty components of a path
Comps(p) == SelectSeq(Split(p, "/"), LAMBDA c : c # <<>>)

RECURSIVE CommonLen(_, _)
CommonLen(a, b) ==
    IF Len(a) = 0 \/ Len(b) = 0 \/ a[1] # b[1] THEN 0
    ELSE 1 + CommonLen(Tail(a), Tail(b))

\* os.path.relpath(p, start) for absolute p and start
relpath(p, start) ==
    LET pc == Comps(p)
        sc == Comps(start)
        k  == CommonLen(pc, sc)
        up == [i \in 1..(Len(sc) - k) |-> <<"..">>]
        rl == up \o SubSeq(pc, k + 1, Len(pc))
    IN  IF Len(rl) = 0 THEN <<".">> ELSE Join(rl, "/")

-----------------------------------------------------------------------------
(* textparser.py *)

\* an iteration of the loop of parse_fls_files whose filters read line[0]
fls_line_field0(raw, ignore_ext_backup, fix_subvols) ==
    LET line == Split(raw, "|")
        skip == [act |-> "skip", exc |-> "none", item |-> <<>>]
        raise(e) == [act |-> "raise", exc |-> e, item |-> <<>>]
    IN  IF ~(Len(line) > 1) THEN skip
        ELSE IF ~HasChar1(line[2]) THEN raise("IndexError")
        ELSE IF Char1(line[2]) = "$" THEN skip
        ELSE IF fix_subvols /\ "snapshot" \in Range(line[1])
                            /\ "subvolume" \in Range(line[1]) THEN skip
        ELSE IF ignore_ext_backup /\ "ext2_saved" \in Range(line[1]) THEN skip
        ELSE IF Len(line) < 4 THEN raise("IndexError")
        ELSE IF Len(line[4]) = 0 THEN raise("IndexError")
        ELSE LET name == IF Char0(line[4]) = "l"
                         THEN Slice1(line[2], Find(line[2], " -> "))
                         ELSE Tail(line[2])
             IN  IF ~IsInt(line[3]) THEN raise("ValueError")
                 ELSE [act |-> "append", exc |-> "none",
                       item |-> <<S(name), I(IntOf(line[3][1]))>>]

\* one iteration of the loop of parse_fls_files
fls_line(raw, ignore_ext_backup, fix_subvols) ==
    LET line == Split(raw, "|")
        skip == [act |-> "skip", exc |-> "none", item |-> <<>>]
        raise(e) == [act |-> "raise", exc |-> e, item |-> <<>>]
    IN  IF ~(Len(line) > 1) THEN skip
        ELSE IF ~HasChar1(line[2]) THEN raise("IndexError")
        ELSE IF Char1(line[2]) = "$" THEN skip
        ELSE IF fix_subvols /\ "snapshot" \in Range(line[2])
                            /\ "subvolume" \in Range(line[2]) THEN skip
        ELSE IF ignore_ext_backup /\ "ext2_saved" \in Range(line[2]) THEN skip
        ELSE IF Len(line) < 4 THEN raise("IndexError")
        ELSE IF Len(line[4]) = 0 THEN raise("IndexError")
        ELSE LET name == IF Char0(line[4]) = "l"
                         THEN Slice1(line[2], Find(line[2], " -> "))
                         ELSE Tail(line[2])
             IN  IF ~IsInt(line[3]) THEN raise("ValueError")
                 ELSE [act |-> "append", exc |-> "none",
                       item |-> <<S(name), I(IntOf(line[3][1]))>>]

RECURSIVE fls_loop(_, _, _, _, _)
fls_loop(data, i, files, ignore_ext_backup, fix_subvols) ==
    IF i > Len(data) THEN [exc |-> "none", val |-> files]
    ELSE LET r == fls_line(data[i], ignore_ext_backup, fix_subvols)
         IN  IF r.act = "raise" THEN [exc |-> r.exc, val |-> files]
             ELSE fls_loop(data, i + 1,
                           IF r.act = "append" THEN Append(files, r.item)
                                               ELSE files,
                           ignore_ext_backup, fix_subvols)

\* TextParser.parse_fls_files: the list of [path, inode], or the exception
parse_fls_files(data, ignore_ext_backup, fix_subvols) ==
    fls_loop(data, 1, <<>>, ignore_ext_backup, fix_subvols)

\* d[k] = v that keeps the value of a key that d already has
DictPut_first(d, k, v) ==
    [x \in DOMAIN d \cup {k} |-> IF x \in DOMAIN d THEN d[x] ELSE v]

\* d[k] = v of a Python dict
DictPut(d, k, v) == [x \in DOMAIN d \cup {k} |-> IF x = k THEN v ELSE d[x]]

EmptyDict == [x \in {} |-> <<>>]

RECURSIVE ils_loop(_, _, _)
ils_loop(data, i, inodes) ==
    IF i > Len(data) THEN [exc |-> "none", val |-> inodes]
    ELSE LET line == Split(data[i], "|")
         IN  IF ~(IsDigit(line[1]) /\ line[1] # <<"0">>)
             THEN ils_loop(data, i + 1, inodes)
             ELSE IF Len(line) < 9 THEN [exc |-> "IndexError", val |-> inodes]
             ELSE IF line[9] = <<"0">> THEN ils_loop(data, i + 1, inodes)
             ELSE LET intline == [j \in 1..Len(line) |-> Conv(line[j])]
                  IN  ils_loop(data, i + 1,
                               DictPut(inodes, intline[1][2], Tail(intline)))

\* TextParser.parse_ils: the dict inode -> remaining fields, or the exception
parse_ils(data) == ils_loop(data, 1, EmptyDict)

RECURSIVE stat_loop(_, _, _, _, _)
stat_loop(data, i, inodes, ignore_ext_backup, fix_subvols) ==
    IF i > Len(data) THEN inodes
    ELSE LET line == Split(data[i], "|")
         IN  IF fix_subvols /\ "snapshot" \in Range(line[1])
                            /\ "subvolume" \in Range(line[1])
             THEN stat_loop(data, i + 1, inodes, ignore_ext_backup, fix_subvols)
             ELSE IF ignore_ext_backup /\ "ext2_saved" \in Range(line[1])
             THEN stat_loop(data, i + 1, inodes, ignore_ext_backup, fix_subvols)
             ELSE stat_loop(data, i + 1,
                            Append(inodes, [j \in 1..Len(line) |-> Conv(line[j])]),
                            ignore_ext_backup, fix_subvols)

\* the "set relative path" loop of parse_stat
RECURSIVE stat_rel(_, _, _)
stat_rel(inodes, i, mp) ==
    IF i > Len(inodes) THEN [exc |-> "none", val |-> inodes]
    ELSE IF IsI(inodes[i][1]) THEN [exc |-> "TypeError", val |-> inodes]
    ELSE IF inodes[i][1][2] = <<>> THEN [exc |-> "ValueError", val |-> inodes]
    ELSE stat_rel([inodes EXCEPT ![i][1] = S(relpath(inodes[i][1][2], mp))],
                  i + 1, mp)

\* the default None of the parameter mpath of parse_stat
None == <<"None">>

\* parse_stat that never applies the ext2_saved filter
parse_stat_noext(data, mp, ignore_ext_backup, fix_subvols) ==
    IF mp = None
    THEN [exc |-> "none",
          val |-> stat_loop(data, 1, <<>>, FALSE, fix_subvols)]
    ELSE stat_rel(stat_loop(data, 1, <<>>, FALSE, fix_subvols), 1, mp)

\* parse_stat that never applies the snapshot filter
parse_stat_nosub(data, mp, ignore_ext_backup, fix_subvols) ==
    IF mp = None
    THEN [exc |-> "none",
          val |-> stat_loop(data, 1, <<>>, ignore_ext_backup, FALSE)]
    ELSE stat_rel(stat_loop(data, 1, <<>>, ignore_ext_backup, FALSE), 1, mp)

\* TextParser.parse_stat: the list of converted lines, or the exception
parse_stat(data, mp, ignore_ext_backup, fix_subvols) ==
    IF mp = None
    THEN [exc |-> "none",
          val |-> stat_loop(data, 1, <<>>, ignore_ext_backup, fix_subvols)]
    ELSE stat_rel(stat_loop(data, 1, <<>>, ignore_ext_backup, fix_subvols), 1, mp)

-----------------------------------------------------------------------------
(* The environment: the images of the suite and what the tools print *)

\* TestBtrfs.mpath
mpath == <<"/", "mnt", "/", "loop">>

\* the first test classes of allsuite, in the order the runner takes them
Suite == <<"btrfs", "btrfs_zlib">>

\* the test methods of TestBtrfs, in the (alphabetical) order unittest runs
\* them
TestOrder == <<"test_filedata",
               "test_metadata_atime", "test_metadata_crtime",
               "test_metadata_ctime", "test_metadata_gid",
               "test_metadata_inode", "test_metadata_links",
               "test_metadata_mode", "test_metadata_mtime",
               "test_metadata_size", "test_metadata_uid", "test_structure">>

TestNames == {TestOrder[i] : i \in 1..Len(TestOrder)}

\* most entries of one image
MaxFiles == 2

\* uid, gid, mtime, atime, ctime, crtime, mode, link count, size as stat prints them
BaseAttrs == <<"0", "0", "1", "1", "1", "1", "7", "1", "5">>

AttrNames == <<"uid", "gid", "mtime", "atime", "ctime", "crtime", "mode",
               "links", "size">>

\* entries an image may hold: a, b/c, the directory "directory" and the
\* regular file "snapshotf"
Catalog ==
    << [path |-> <<"a">>,              inode |-> "5", kind |-> "reg"],
       [path |-> <<"b", "/", "c">>,    inode |-> "6", kind |-> "reg"],
       [path |-> <<"directory">>,      inode |-> "7", kind |-> "dir"],
       [path |-> <<"snapshot", "f">>,  inode |-> "2", kind |-> "reg"] >>

\* how the forensic tools may differ from stat on one entry: not at all, in
\* one attribute, by an inode that ils does not list ("noils"), by not listing
\* the entry ("nofls"), by listing an entry that stat does not print
\* ("nostat"), by listing the entry a second time under the inode 1 ("dup");
\* and how the output of a tool may be malformed at one entry: fls prints an
\* inode field that is no number ("badfls"), stat prints an empty line after
\* the line of the entry ("badstat")
Distortions ==
    {"same", "noils", "nofls", "nostat", "dup", "badfls", "badstat"}
    \cup {AttrNames[k] : k \in 1..Len(AttrNames)}

\* the attributes with attribute d changed
Perturb(attrs, d) ==
    [k \in 1..Len(attrs) |->
        IF AttrNames[k] # d THEN attrs[k]
        ELSE IF d = "uid" THEN "1000"
        ELSE IF d = "size" THEN "0"
        ELSE "2"]

\* a line of stat -c '%n|%i|a|%u|%g|%Y|%X|%Z|%W|%a|%h|%s'
StatLine(e) ==
    Join(<<mpath \o <<"/">> \o e.path, <<e.inode>>, <<"a">>>>
         \o [k \in 1..Len(BaseAttrs) |-> <<BaseAttrs[k]>>], "|")

\* a line of fls -r -m /
FlsLine(e, d) ==
    Join(<<<<"0">>, <<"/">> \o e.path,
           <<IF d = "noils" THEN "77" ELSE IF d = "badfls" THEN "x"
             ELSE e.inode>>, <<"r">>>>, "|")

\* a line of ils -a
IlsLine(e, d) ==
    Join(<<<<e.inode>>, <<"a">>>>
         \o [k \in 1..Len(BaseAttrs) |-> <<Perturb(BaseAttrs, d)[k]>>], "|")

IlsHeader == <<"class", "|", "host", "|", "device", "|", "start_time">>

\* a scenario: the entries of the image (indices of Catalog) and the
\* distortion of each; the tools differ on no entry or on a single one
ScenariosOf(ds) ==
    UNION {{sc \in [fs -> ds] :
               \A x, y \in fs : sc[x] # "same" /\ sc[y] # "same" => x = y} :
           fs \in {f \in SUBSET (1..Len(Catalog)) : Cardinality(f) <= MaxFiles}}

Scenarios == ScenariosOf(Distortions)
SuiteScenarios ==
    ScenariosOf({"same", "uid", "noils", "nofls", "nostat", "badfls", "badstat"})

\* the entries of sc, in catalog order
Entries(sc) == SelectSeq([i \in 1..Len(Catalog) |-> i], LAMBDA i : i \in DOMAIN sc)

SeqsUpTo(set, n) == UNION {[1..k -> set] : k \in 0..n}

RECURSIVE Concat(_)
Concat(ss) == IF Len(ss) = 0 THEN <<>> ELSE ss[1] \o Concat(Tail(ss))

FlsOut(sc) ==
    Concat([k \in 1..Len(Entries(sc)) |->
               LET i == Entries(sc)[k]
               IN  IF sc[i] = "nofls" THEN <<>>
                   ELSE IF sc[i] = "dup"
                   THEN <<FlsLine(Catalog[i], sc[i]),
                          FlsLine([Catalog[i] EXCEPT !.inode = "1"], sc[i])>>
                   ELSE <<FlsLine(Catalog[i], sc[i])>>])
IlsOut(sc) ==
    <<IlsHeader>> \o
    Concat([k \in 1..Len(Entries(sc)) |->
               LET i == Entries(sc)[k]
               IN  IF sc[i] = "dup"
                   THEN <<IlsLine(Catalog[i], sc[i]),
                          IlsLine([Catalog[i] EXCEPT !.inode = "1"], sc[i])>>
                   ELSE <<IlsLine(Catalog[i], sc[i])>>])
StatOut(sc) ==
    Concat([k \in 1..Len(Entries(sc)) |->
               LET i == Entries(sc)[k]
               IN  IF sc[i] = "nostat" THEN <<>>
                   ELSE IF sc[i] = "badstat" THEN <<StatLine(Catalog[i]), <<>>>>
                   ELSE <<StatLine(Catalog[i])>>])

-----------------------------------------------------------------------------
(* test_btrfs.py: class set-up *)

\* the loop "for line in tsk_files: line.extend(tsk_inodes[line[1]]);
\* self.tsk.add(tuple(line))": the records added, and the KeyError if any
RECURSIVE merge(_, _, _, _)
merge(files, i, inodes, added) ==
    IF i > Len(files) THEN [exc |-> "none", args |-> <<>>, val |-> added]
    ELSE IF files[i][2][2] \notin DOMAIN inodes
         THEN [exc |-> "KeyError", args |-> <<files[i][2]>>, val |-> added]
    ELSE merge(files, i + 1, inodes,
               added \cup {files[i] \o inodes[files[i][2][2]]})

NoResult == [t \in TestNames |-> "none"]
NoCmp == [test |-> "none", first |-> {}, second |-> {}]

\* the first exception among the steps of the try block
FirstExc(excs) ==
    IF \A i \in 1..Len(excs) : excs[i] = "none" THEN "none"
    ELSE excs[CHOOSE i \in 1..Len(excs) :
                  excs[i] # "none" /\ \A j \in 1..(i-1) : excs[j] = "none"]

\* TestBtrfs.setUpClassCustom, called by setUpClass of the class Suite[cur];
\* scs are the tool outputs the image may give.  f, n, m and p are the four
\* steps of the try block, each run only if no earlier step raised.
setUpClassCustom(scs) ==
    /\ phase = "idle"
    /\ cur <= Len(Suite)
    /\ \E sc \in scs :
       \E f \in {parse_fls_files(FlsOut(sc), policy.ignore_ext_backup,
                                 policy.fix_subvols)} :
       \E n \in {IF f.exc = "none" THEN parse_ils(IlsOut(sc))
                 ELSE [exc |-> "none", val |-> EmptyDict]} :
       \E m \in {IF f.exc = "none" /\ n.exc = "none"
                 THEN merge(f.val, 1, n.val, {})
                 ELSE [exc |-> "none", args |-> <<>>, val |-> {}]} :
       \E p \in {IF f.exc = "none" /\ n.exc = "none" /\ m.exc = "none"
                 THEN parse_stat(StatOut(sc), mpath, policy.ignore_ext_backup,
                                 policy.fix_subvols)
                 ELSE [exc |-> "none", val |-> <<>>]} :
       \E exc \in {FirstExc(<<f.exc, n.exc, m.exc, p.exc>>)} :
          /\ tsk' = tsk \cup m.val
          /\ stat' = stat \cup (IF p.exc = "none" THEN Range(p.val) ELSE {})
          /\ phase' = IF exc = "none" THEN "testing" ELSE "failed"
          /\ err' = [type |-> exc, args |-> m.args]
          /\ setup_errors' =
                IF exc = "none" THEN setup_errors
                ELSE Append(setup_errors, [class |-> Suite[cur], type |-> exc])
          /\ tsk_files' = f.val
          /\ tsk_inodes' = n.val
          /\ ownTsk' = m.val
          /\ ownStat' = (IF p.exc = "none" THEN Range(p.val) ELSE {})
          /\ fskind' = [q \in {Catalog[i].path : i \in DOMAIN sc} |->
                          Catalog[CHOOSE i \in DOMAIN sc : Catalog[i].path = q].kind]
    /\ tix' = 1
    /\ result' = NoResult
    /\ cmp' = NoCmp
    /\ UNCHANGED <<policy, cur, pIn, pOut, pTool>>

\* the runner after setUpClass raised: no test method and no tearDownClass of
\* the class runs, the next class of the suite is taken
SkipClass ==
    /\ phase = "failed"
    /\ phase' = "idle"
    /\ cur' = cur + 1
    /\ UNCHANGED <<policy, tsk, stat, tix, result, cmp, err, tsk_files,
                   tsk_inodes, ownTsk, ownStat, fskind, pIn, pOut, pTool,
                   setup_errors>>

\* TestBtrfs.tearDownClassCustom, after the last test method of the class
tearDownClassCustom ==
    /\ phase = "testing"
    /\ tix > Len(TestOrder)
    /\ phase' = "idle"
    /\ cur' = cur + 1
    /\ UNCHANGED <<policy, tsk, stat, tix, result, cmp, err, tsk_files,
                   tsk_inodes, ownTsk, ownStat, fskind, pIn, pOut, pTool,
                   setup_errors>>

-----------------------------------------------------------------------------
(* test_btrfs.py: the test methods *)

\* the test method name is the next one the runner takes
Runs(name) ==
    /\ phase = "testing"
    /\ tix <= Len(TestOrder)
    /\ TestOrder[tix] = name

\* the test method ends with the given outcome; first and second are its
\* locals stat and tsk, the arguments of assertEqual
Ends(name, outcome, first, second) ==
    /\ result' = [result EXCEPT ![name] = outcome]
    /\ cmp' = [test |-> name, first |-> first, second |-> second]
    /\ tix' = tix + 1
    /\ UNCHANGED <<policy, tsk, stat, cur, phase, err, tsk_files, tsk_inodes,
                   ownTsk, ownStat, fskind, pIn, pOut, pTool,
                   setup_errors>>

\* self.assertEqual(first, second)
assertEqual(name, first, second) ==
    Ends(name, IF first = second THEN "pass" ELSE "fail", first, second)

\* {(line[0], line[k-1]) for line in coll}; line[k-1] raises IndexError on a
\* line with fewer than k fields
Pairs(coll, k) == {<<line[1], line[k]>> : line \in coll}
Short(coll, k) == \E line \in coll : Len(line) < k

\* the test methods that compare one field of the two collections
FieldCheck(name, k) ==
    /\ Runs(name)
    /\ IF Short(tsk, k) \/ Short(stat, k)
       THEN Ends(name, "error", {}, {})
       ELSE assertEqual(name, Pairs(stat, k), Pairs(tsk, k))

\* test_structure with assertEqual replaced by a subset test
test_structure_subset ==
    /\ Runs("test_structure")
    /\ Ends("test_structure",
            IF {line[1] : line \in tsk} \subseteq {line[1] : line \in stat}
            THEN "pass" ELSE "fail",
            {line[1] : line \in stat}, {line[1] : line \in tsk})

test_structure ==
    /\ Runs("test_structure")
    /\ assertEqual("test_structure", {line[1] : line \in stat},
                   {line[1] : line \in tsk})

\* test_metadata_uid reading the field of test_metadata_gid
test_metadata_uid_gid == FieldCheck("test_metadata_uid", 5)
test_metadata_uid == FieldCheck("test_metadata_uid", 4)
test_metadata_gid == FieldCheck("test_metadata_gid", 5)
test_metadata_mtime == FieldCheck("test_metadata_mtime", 6)
test_metadata_atime == FieldCheck("test_metadata_atime", 7)
\* test_metadata_ctime reading the field of test_metadata_atime
test_metadata_ctime_atime == FieldCheck("test_metadata_ctime", 7)
test_metadata_ctime == FieldCheck("test_metadata_ctime", 8)
test_metadata_crtime == FieldCheck("test_metadata_crtime", 9)
test_metadata_mode == FieldCheck("test_metadata_mode", 10)
test_metadata_links == FieldCheck("test_metadata_links", 11)

\* SizeValue without the word "directory"
SizeValue_nodir(line, fix_size) ==
    LET last == Split(line[1][2], "/")[Len(Split(line[1][2], "/"))]
    IN  IF fix_size /\ (\/ "subvolume" \in Range(last)
                        \/ "snapshot" \in Range(last))
        THEN I(0)
        ELSE line[12]

\* the value test_metadata_size puts in its stat set for one line
SizeValue(line, fix_size) ==
    LET last == Split(line[1][2], "/")[Len(Split(line[1][2], "/"))]
    IN  IF fix_size /\ (\/ "directory" \in Range(last)
                        \/ "subvolume" \in Range(last)
                        \/ "snapshot" \in Range(last))
        THEN I(0)
        ELSE line[12]

test_metadata_size ==
    /\ Runs("test_metadata_size")
    /\ IF Short(tsk, 12) \/ Short(stat, 12)
       THEN Ends("test_metadata_size", "error", {}, {})
       ELSE assertEqual("test_metadata_size",
                        {<<line[1], SizeValue(line, policy.fix_size)>> : line \in stat},
                        Pairs(tsk, 12))

\* what istat prints for an inode: its number in the third field of the third
\* line ("ok"), another number there ("other"), or nothing because the
\* command failed and e.output is empty ("fail")
IstatKinds == {"ok", "other", "fail"}
NumeralOf(n) == CHOOSE t \in Numerals \ {"00"} : IntOf(t) = n
IstatOutput(kind, n) ==
    IF kind = "fail" THEN <<>>
    ELSE << <<"inode:", " ", NumeralOf(n)>>, <<"Allocated">>,
            <<"Inode", " ", "Number:", " ",
              IF kind = "ok" THEN NumeralOf(n) ELSE "0">> >>

\* istat = istat.splitlines(); istat = istat[2].decode('utf-8').split(' ');
\* int(istat[2])
IstatParse(out) ==
    IF Len(out) < 3 THEN [exc |-> "IndexError", val |-> I(0)]
    ELSE LET f == Split(out[3], " ")
         IN  IF Len(f) < 3 THEN [exc |-> "IndexError", val |-> I(0)]
             ELSE IF ~IsInt(f[3]) THEN [exc |-> "ValueError", val |-> I(0)]
             ELSE [exc |-> "none", val |-> I(IntOf(f[3][1]))]

test_metadata_inode ==
    /\ Runs("test_metadata_inode")
    /\ \E env \in [{line[2][2] : line \in tsk} -> IstatKinds] :
          LET istat(line) == IstatParse(IstatOutput(env[line[2][2]], line[2][2]))
          IN  IF (\E line \in tsk : istat(line).exc # "none") \/ Short(stat, 2)
              THEN Ends("test_metadata_inode", "error", {}, {})
              ELSE assertEqual("test_metadata_inode", Pairs(stat, 2),
                               {<<line[1], istat(line).val>> : line \in tsk})

-----------------------------------------------------------------------------
(* test_btrfs.py: test_filedata, and the hash file it reads *)

\* TestBtrfs.rec_dir
rec_dir == <<".files">>

\* ImageFactory.md5sum of a file with the given content; an unreadable file
\* raises ImageCreationError
md5sum(content) ==
    IF content = "" THEN <<"d41d8cd98f00b204e9800998ecf8427e">>
    ELSE <<"9dd4e461268c8034f5c8564e155c67a6">>

\* the files os.walk finds below the mount point when the image is created
\* (a fifo is no regular file), and the order it finds them in
ImageEntries ==
    { [path |-> <<"empty_file">>, kind |-> "reg", content |-> ""],
      [path |-> <<"a">>, kind |-> "reg", content |-> "x"],
      [path |-> <<"a", " ", "b">>, kind |-> "reg", content |-> "x"],
      [path |-> <<"ext2_saved", "/", "a">>, kind |-> "reg", content |-> "x"],
      [path |-> <<"snapshot", "/", "subvolume", "/", "a">>, kind |-> "reg",
       content |-> "x"],
      [path |-> <<"named_fifo">>, kind |-> "fifo", content |-> ""] }

ImageFileSeqs ==
    {fs \in SeqsUpTo(ImageEntries, MaxFiles) :
        \A i, j \in 1..Len(fs) : fs[i] = fs[j] => i = j}

\* ImageFactory.__md5sum_image: one line "hash path" per file that is no
\* device, socket or pipe; sep is what is written between hash and path
md5sum_image(fs, sep) ==
    Concat([i \in 1..Len(fs) |->
               IF fs[i].kind = "fifo" THEN <<>>
               ELSE <<md5sum(fs[i].content) \o sep \o fs[i].path \o <<"\n">>>>])

\* the part of ImageFactory.create that writes the hash file: the lines of
\* the files, a line of dashes, the line of the image
create_hashfile(fs, sep) ==
    md5sum_image(fs, sep)
    \o << <<"-", "-------------------------------", "\n">>,
          <<"0cc175b9c0f1b6a831c399e269772661", " ", " ", "btrfs", "\n">> >>

\* s[0:-1] that keeps the whole of s
DropLast_all(s) == s

\* s[0:-1]
DropLast(s) ==
    IF Len(s) = 0 THEN <<>>
    ELSE IF s[Len(s)] \in Words
         THEN SubSeq(s, 1, Len(s) - 1) \o <<ChopWord(s[Len(s)])>>
         ELSE SubSeq(s, 1, Len(s) - 1)

\* the first loop of test_filedata without the test for "-"
RECURSIVE read_hashfile_all(_, _, _)
read_hashfile_all(lines, i, acc) ==
    IF i > Len(lines) THEN acc
    ELSE LET line == Split(DropLast(lines[i]), " ")
             fname == Join(Tail(line), " ")
         IN  read_hashfile_all(lines, i + 1, acc \cup {<<fname, line[1]>>})

\* the first loop of test_filedata: the pairs (fname, hash) of the lines
\* that f.readline() returns before a line that starts with "-"
RECURSIVE read_hashfile(_, _, _)
read_hashfile(lines, i, acc) ==
    IF i > Len(lines) THEN acc
    ELSE IF Char0(lines[i]) = "-" THEN acc
    ELSE LET line == Split(DropLast(lines[i]), " ")
             fname == Join(Tail(line), " ")
         IN  read_hashfile(lines, i + 1, acc \cup {<<fname, line[1]>>})

\* the files of the recovered tree that the second loop of test_filedata
\* does not skip
walked(tree, ignore_ext_backup, fix_subvols) ==
    {f \in tree :
        LET parts == Split(f.path, "/")
            fpath == rec_dir \o <<"/">> \o f.path
        IN  /\ Char0(parts[Len(parts)]) # "$"
            /\ ~(fix_subvols /\ "snapshot" \in Range(fpath)
                             /\ "subvolume" \in Range(fpath))
            /\ ~(ignore_ext_backup /\ "ext2_saved" \in Range(fpath))}

\* the body of test_filedata up to assertEqual: the two sets, or the
\* ImageCreationError of md5sum
filedata(hashfile, tree, ignore_ext_backup, fix_subvols) ==
    LET kept == walked(tree, ignore_ext_backup, fix_subvols)
    IN  [exc  |-> IF \E f \in kept : f.content = "unreadable"
                  THEN "ImageCreationError" ELSE "none",
         stat |-> read_hashfile(hashfile, 1, {}),
         tsk  |-> {<<relpath(rec_dir \o <<"/">> \o f.path, rec_dir),
                     md5sum(f.content)>> : f \in kept}]

\* what tsk_recover may have put below rec_dir
TreeEntries ==
    { [path |-> <<"empty_file">>, content |-> ""],
      [path |-> <<"a">>, content |-> "x"],
      [path |-> <<"a">>, content |-> ""],
      [path |-> <<"a">>, content |-> "unreadable"],
      [path |-> <<"a", " ", "b">>, content |-> "x"],
      [path |-> <<"$", "a">>, content |-> "x"],
      [path |-> <<"ext2_saved", "/", "a">>, content |-> "x"],
      [path |-> <<"snapshot", "/", "subvolume", "/", "a">>, content |-> "x"] }

Trees ==
    {t \in SUBSET TreeEntries :
        /\ Cardinality(t) <= MaxFiles
        /\ \A f, g \in t : f.path = g.path => f = g}

\* the hash file and the recovered tree of the images of the suite
ClassFiles ==
    { [hashfile |-> create_hashfile(<<[path |-> <<"empty_file">>,
                                       kind |-> "reg", content |-> ""]>>, <<" ">>),
       tree |-> {[path |-> <<"empty_file">>, content |-> ""]}],
      [hashfile |-> create_hashfile(<<[path |-> <<"a">>,
                                       kind |-> "reg", content |-> "x"]>>, <<" ">>),
       tree |-> {[path |-> <<"a">>, content |-> ""]}],
      [hashfile |-> create_hashfile(<<[path |-> <<"a">>,
                                       kind |-> "reg", content |-> "x"]>>, <<" ">>),
       tree |-> {[path |-> <<"a">>, content |-> "unreadable"]}] }

test_filedata ==
    /\ Runs("test_filedata")
    /\ \E env \in ClassFiles :
       \E r \in {filedata(env.hashfile, env.tree, policy.ignore_ext_backup,
                          policy.fix_subvols)} :
          IF r.exc # "none"
          THEN Ends("test_filedata", "error", {}, {})
          ELSE assertEqual("test_filedata", r.stat, r.tsk)

-----------------------------------------------------------------------------
(* testimage.py: ImageFactory, and the files, mounts and loop devices of   *)
(* the class set-up and tear-down of test_btrfs.py                          *)

\* A world is what the calls act on: the regular files and the directories
\* that exist (paths from the working directory), the image file mounted on
\* the mount point (None when nothing is), the loop devices attached, the
\* user id of the process and the external commands run so far.

ipath == <<"images">>
MOUNT_PATH == <<"/", "mnt", "/", "loop">>
ICE == "ImageCreationError"

\* the loop devices of the machine, in the order losetup -f offers them
LoopDevs == << <<"/dev/loop0">>, <<"/dev/loop1">> >>

\* the file a path names: "./x" and "x" are one file
FileAt(p) ==
    IF Len(p) >= 2 /\ p[1] = "." /\ p[2] = "/" THEN SubSeq(p, 3, Len(p)) ELSE p

\* f lies below the directory d
InDir(f, d) ==
    /\ Len(f) > Len(d) + 1
    /\ SubSeq(f, 1, Len(d)) = d
    /\ f[Len(d) + 1] = "/"

path_join(a, b) == IF a = <<>> THEN b ELSE a \o <<"/">> \o b

basename(p) ==
    LET slashes == {k \in 1..Len(p) : p[k] = "/"}
        last == IF slashes = {} THEN 0
                ELSE CHOOSE k \in slashes : \A j \in slashes : j <= k
    IN  SubSeq(p, last + 1, Len(p))

Ok(w, ret) == [exc |-> "none", msg |-> "", w |-> w, ret |-> ret]
Raise(e, m, w, ret) == [exc |-> e, msg |-> m, w |-> w, ret |-> ret]
Ran(w, c) == [w EXCEPT !.cmds = @ \cup {c}]

type_to_names(imagetype) ==
    IF "raid" \in Range(imagetype)
    THEN <<imagetype \o <<".1.img">>, imagetype \o <<".2.img">>,
           imagetype \o <<".img.md5">>>>
    ELSE <<imagetype \o <<".img">>, imagetype \o <<".img.md5">>>>

\* the image types create can format, and those converted from ext
MkfsTypes ==
    { <<"btrfs">>, <<"btrfs_zlib">>, <<"btrfs_", "raid", "1D">>,
      <<"ext2_btrfs">> }
ExtTypes == { <<"ext2_btrfs">> }

\* shutil.rmtree(d, ignore_errors=True)
rmtree(w, d) ==
    [w EXCEPT !.files = {f \in @ : ~InDir(f, FileAt(d))},
              !.dirs = {x \in @ : x # FileAt(d) /\ ~InDir(x, FileAt(d))}]

\* losetup -f: the first loop device that is free, None when all are taken
losetup_f(w) ==
    LET free == {k \in 1..Len(LoopDevs) :
                    \A l \in w.loops : l.dev # LoopDevs[k]}
    IN  IF free = {} THEN None
        ELSE LoopDevs[CHOOSE k \in free : \A j \in free : k <= j]

\* ImageFactory.umount
umount(w) ==
    IF w.mounted = None
    THEN Raise(ICE, "unmounting failed", Ran(w, "umount"), <<>>)
    ELSE Ok([Ran(w, "umount") EXCEPT !.mounted = None], <<>>)

\* ImageFactory.mount; mount_fails is the mount command failing by itself
mount(w, imagetype, ip, mp, mount_fails) ==
    LET w1 == [w EXCEPT !.dirs = @ \cup {mp}]
        image == IF ip = None THEN basename(imagetype)
                 ELSE path_join(ip, type_to_names(imagetype)[1])
        w2 == Ran(w1, "mount")
    IN  IF mount_fails \/ FileAt(image) \notin w.files
        THEN Raise(ICE, "mounting failed", w2, <<>>)
        ELSE Ok([w2 EXCEPT !.mounted = FileAt(image)], <<>>)

\* the loop of mount_raid that attaches the two image files
RECURSIVE attach_raid(_, _, _, _, _)
attach_raid(w, ip, files, i, devs) ==
    IF i > 2 THEN Ok(w, devs)
    ELSE LET loopdev == losetup_f(w)
             image == FileAt(path_join(ip, files[i]))
         IN  IF loopdev = None
             THEN Raise(ICE, "no free loop device available", w, devs)
             ELSE IF image \notin w.files
             THEN Raise(ICE, "attaching to device failed",
                        Ran(w, "losetup"), devs)
             ELSE attach_raid(
                      [Ran(w, "losetup") EXCEPT
                          !.loops = @ \cup {[dev |-> loopdev, file |-> image]}],
                      ip, files, i + 1, Append(devs, loopdev))

\* ImageFactory.mount_raid; returns the two devices
mount_raid(w, imagetype, ip, mp, mount_fails) ==
    LET w1 == [w EXCEPT !.dirs = @ \cup {mp}]
    IN  IF ip = None
        THEN Raise("TypeError", "", w1, <<>>)
        ELSE LET a == attach_raid(w1, ip, type_to_names(imagetype), 1, <<>>)
                 w2 == Ran(a.w, "mount")
             IN  IF a.exc # "none" THEN a
                 ELSE IF mount_fails
                 THEN Raise(ICE, "mounting failed", w2, <<>>)
                 ELSE Ok([w2 EXCEPT !.mounted =
                             FileAt(path_join(ip, type_to_names(imagetype)[1]))],
                         a.ret)

\* the loop of umount_raid over the devices
RECURSIVE detach_all(_, _, _)
detach_all(w, loopdev, i) ==
    IF i > Len(loopdev) THEN Ok(w, <<>>)
    ELSE IF \A l \in w.loops : l.dev # loopdev[i]
    THEN Raise(ICE, "releasing from device failed", Ran(w, "losetup -d"), <<>>)
    ELSE detach_all([Ran(w, "losetup -d") EXCEPT
                        !.loops = {l \in @ : l.dev # loopdev[i]}],
                    loopdev, i + 1)

\* ImageFactory.umount_raid
umount_raid(w, loopdev) ==
    LET u == umount(w)
    IN  IF u.exc # "none" THEN u
        ELSE IF loopdev = None THEN u
        ELSE detach_all(u.w, loopdev, 1)

\* ImageFactory.__cleanup: the results of umount and losetup -d are ignored
cleanup(w, loopdev) ==
    [Ran(Ran(w, "umount"), "losetup -d") EXCEPT
        !.mounted = None,
        !.loops = {l \in @ : l.dev \notin Range(loopdev)}]

\* ImageFactory.delete, from the i-th name on: os.remove raises for a file
\* that does not exist
RECURSIVE delete_from(_, _, _, _)
delete_from(w, imagetype, ip, i) ==
    LET names == type_to_names(imagetype)
        f == FileAt(path_join(ip, names[i]))
    IN  IF i > Len(names) THEN Ok(w, <<>>)
        ELSE IF f \notin w.files
        THEN Raise(ICE, "could not remove files", w, <<>>)
        ELSE delete_from([w EXCEPT !.files = @ \ {f}], imagetype, ip, i + 1)

delete(w, imagetype, ip) == delete_from(w, imagetype, ip, 1)

\* the steps of create that can fail on their own
CreateSteps ==
    {"none", "attach", "format", "mount", "files", "convert", "chown", "hash"}

\* ImageFactory.__create_image for the k-th image file and the ones after it
RECURSIVE create_images(_, _, _, _, _)
create_images(w, filename, k, loopdev, fail) ==
    IF k > Len(filename) THEN Ok(w, loopdev)
    ELSE LET w1 == [w EXCEPT !.files = @ \cup {FileAt(filename[k])}]
             dev == losetup_f(w1)
         IN  IF dev = None
             THEN Raise(ICE, "no free loop device available", w1, loopdev)
             ELSE IF fail = "attach"
             THEN Raise(ICE, "attaching to device failed",
                        Ran(w1, "losetup"), loopdev)
             ELSE create_images(
                      [Ran(w1, "losetup") EXCEPT
                          !.loops = @ \cup {[dev |-> dev,
                                            file |-> FileAt(filename[k])]}],
                      filename, k + 1, Append(loopdev, dev), fail)

\* create, from the mount of the formatted image(s) to the hash file; ret is
\* the list loopdev
create_fill(w, imagetype, imagedir, hfname, loopdev, fail) ==
    LET m == mount(w, imagetype, imagedir, MOUNT_PATH, fail = "mount")
        u == umount(m.w)
        conv == Ran(u.w, "btrfs-convert")
        again == mount(conv, imagetype, imagedir, MOUNT_PATH, FALSE)
        filled == IF imagetype \in ExtTypes THEN again.w ELSE m.w
        owned == Ran(filled, "chown")
        hashed == [owned EXCEPT !.files = @ \cup {FileAt(hfname)}]
    IN  IF m.exc # "none" THEN [m EXCEPT !.ret = loopdev]
        ELSE IF fail = "files"
        THEN Raise(ICE, "could not create file", m.w, loopdev)
        ELSE IF imagetype \in ExtTypes /\ u.exc # "none"
        THEN [u EXCEPT !.ret = loopdev]
        ELSE IF imagetype \in ExtTypes /\ fail = "convert"
        THEN Raise(ICE, "conversion failed", conv, loopdev)
        ELSE IF imagetype \in ExtTypes /\ again.exc # "none"
        THEN [again EXCEPT !.ret = loopdev]
        ELSE IF fail = "chown"
        THEN Raise(ICE, "changing file owner failed", owned, loopdev)
        ELSE IF fail = "hash"
        THEN Raise(ICE, "could not create md5 file", hashed, loopdev)
        ELSE Ok(cleanup(hashed, loopdev), loopdev)

\* the try block of create; ret is the list loopdev as the handler finds it
create_try(w, imagetype, imagedir, fail) ==
    LET names == type_to_names(imagetype)
        filename == [k \in 1..(Len(names) - 1) |->
                        path_join(imagedir, names[k])]
        hfname == path_join(imagedir, names[Len(names)])
        imgs == create_images(w, filename, 1, <<>>, fail)
    IN  IF imgs.exc # "none" THEN imgs
        ELSE IF imagetype \notin MkfsTypes
        THEN Raise(ICE, "this type is not supported", imgs.w, imgs.ret)
        ELSE IF fail = "format"
        THEN Raise(ICE, "formatting failed", Ran(imgs.w, "mkfs"), imgs.ret)
        ELSE create_fill(Ran(imgs.w, "mkfs"), imagetype, imagedir, hfname,
                         imgs.ret, fail)

\* create once no image file of the type exists: the try block and its
\* handler, which cleans up, deletes and raises again
create_new(w, imagetype, imagedir, fail) ==
    LET r == create_try(w, imagetype, imagedir, fail)
        d == delete(cleanup(r.w, r.ret), imagetype, imagedir)
    IN  IF r.exc = "none" THEN Ok(r.w, type_to_names(imagetype))
        ELSE IF d.exc # "none" THEN d
        ELSE Raise(r.exc, r.msg, d.w, <<>>)

\* create without the look at the files that exist already
create_nocheck(w, imagetype, size, imagedir, fail) ==
    IF size <= 0
    THEN Raise("ValueError", "cannot create zero or negative sized image",
               w, <<>>)
    ELSE IF w.uid # 0 THEN Raise(ICE, "this method needs root", w, <<>>)
    ELSE IF imagedir # <<>> /\ FileAt(imagedir) \notin w.dirs
    THEN Raise(ICE, "directory does not exist", w, <<>>)
    ELSE create_new(w, imagetype, imagedir, fail)

\* ImageFactory.create; fail names the step that fails on its own
create(w, imagetype, size, imagedir, fail) ==
    LET names == type_to_names(imagetype)
        filename == [k \in 1..(Len(names) - 1) |->
                        path_join(imagedir, names[k])]
        cnt == Cardinality({k \in 1..Len(filename) :
                               FileAt(filename[k]) \in w.files})
    IN  IF size <= 0
        THEN Raise("ValueError", "cannot create zero or negative sized image",
                   w, <<>>)
        ELSE IF w.uid # 0 THEN Raise(ICE, "this method needs root", w, <<>>)
        ELSE IF imagedir # <<>> /\ FileAt(imagedir) \notin w.dirs
        THEN Raise(ICE, "directory does not exist", w, <<>>)
        ELSE IF cnt # 0
        THEN IF Len(filename) = cnt THEN Ok(w, names)
             ELSE Raise(ICE, "some image files already exist", w, <<>>)
        ELSE create_new(w, imagetype, imagedir, fail)

\* the steps of the class set-up that can fail on their own, after create
SetupSteps == {"setup_mount", "fls", "ils", "merge", "stat"}

\* what the try block of setUpClassCustom does to the world; files is
\* self.files
setup_try(w, files, fail) ==
    LET made == [w EXCEPT !.dirs = @ \cup {rec_dir}]
        recovered == [Ran(made, "tsk_recover") EXCEPT
                         !.files = @ \cup {path_join(rec_dir, <<"a">>)}]
    IN  IF fail = "fls" \/ FileAt(files[1]) \notin w.files
        THEN Raise("CalledProcessError", "fls", w, <<>>)
        ELSE IF fail = "ils" THEN Raise("CalledProcessError", "ils", w, <<>>)
        ELSE IF fail = "merge" THEN Raise("KeyError", "", w, <<>>)
        ELSE IF fail = "stat" THEN Raise("CalledProcessError", "stat", w, <<>>)
        ELSE IF rec_dir \in w.dirs
        THEN Raise("Exception", "file recovery directory already exits",
                   w, <<>>)
        ELSE Ok(recovered, <<>>)

\* the handler of the try block of setUpClassCustom
setup_except(r) ==
    LET u == umount(r.w)
    IN  IF u.exc # "none" THEN u
        ELSE Raise(r.exc, r.msg, rmtree(u.w, rec_dir), <<>>)

\* the outcome of a set-up: the exception, the world, self.files,
\* self.loopdev, self.ipath and whether the image was mounted
SetUpResult(r, files, loopdev, ip, mounted) ==
    [exc |-> r.exc, msg |-> r.msg, w |-> r.w, files |-> files,
     loopdev |-> loopdev, ipath |-> ip, mounted |-> mounted]

-----------------------------------------------------------------------------
(* The specifications *)

Policies == [ignore_ext_backup : BOOLEAN, fix_subvols : BOOLEAN,
             fix_size : BOOLEAN]

\* the options as test_btrfs.py sets them
DefaultPolicy == [ignore_ext_backup |-> TRUE, fix_subvols |-> TRUE,
                  fix_size |-> TRUE]

\* the state when the classes are defined; first is the class run first,
\* pols the settings of the user options
Start(first, pols) ==
    /\ policy \in pols
    /\ tsk = {}
    /\ stat = {}
    /\ cur = first
    /\ phase = "idle"
    /\ tix = 1
    /\ result = NoResult
    /\ cmp = NoCmp
    /\ err = [type |-> "none", args |-> <<>>]
    /\ tsk_files = <<>>
    /\ tsk_inodes = EmptyDict
    /\ ownTsk = {}
    /\ ownStat = {}
    /\ fskind = EmptyDict
    /\ setup_errors = <<>>

\* no parser is called on its own
NotRun == [exc |-> "notrun", val |-> <<>>]
NoCall == pIn = <<>> /\ pOut = NotRun /\ pTool = "none"

Init == Start(1, {DefaultPolicy}) /\ NoCall

Tests ==
    \/ test_filedata
    \/ test_structure
    \/ test_metadata_inode
    \/ test_metadata_uid
    \/ test_metadata_gid
    \/ test_metadata_mtime
    \/ test_metadata_atime
    \/ test_metadata_ctime
    \/ test_metadata_crtime
    \/ test_metadata_mode
    \/ test_metadata_links
    \/ test_metadata_size

\* the suite of test_btrfs_all.py: the classes of Suite one after the other
\* in one process
Next ==
    \/ setUpClassCustom(SuiteScenarios)
    \/ SkipClass
    \/ tearDownClassCustom
    \/ Tests

Spec == Init /\ [][Next]_vars

\* one test module run on its own: a single class in the process
InitClass == Start(Len(Suite), Policies) /\ NoCall

NextClass ==
    \/ setUpClassCustom(Scenarios)
    \/ SkipClass
    \/ tearDownClassCustom
    \/ Tests

SpecClass == InitClass /\ [][NextClass]_vars

-----------------------------------------------------------------------------
(* The parsers on their own *)

\* most lines of one tool output
MaxLines == 2

\* the file names fls may print after the leading "/"
FlsNames ==
    { <<"a">>, <<"f">>, <<"$", "a">>, <<"b", "/", "c">>, <<"b", "/", "$", "a">>,
      <<"snapshot", "/", "subvolume">>, <<"ext2_saved", "/", "a">>,
      <<"f", " -> ", "a">>, <<"f", " -> ", "ext2_saved">> }

\* lines of fls -r -m /: md5|name|inode|mode, a line without "|" and a
\* line that ends after the inode
FlsLines ==
    {Join(<<<<"0">>, <<"/">> \o n, <<i>>, <<t, "/", t>>>>, "|") :
        n \in FlsNames, i \in {"5", "x"}, t \in {"r", "l"}}
    \cup {<<"hdr">>, <<"0", "|", "/", "a", "|", "5">>}

InitFls ==
    /\ Start(1, {pol \in Policies : pol.fix_size})
    /\ pIn \in SeqsUpTo(FlsLines, MaxLines)
    /\ pOut = NotRun
    /\ pTool = "fls"

\* a call of TextParser.parse_fls_files on the output pIn
CallParseFls ==
    /\ pTool = "fls"
    /\ pOut = NotRun
    /\ pOut' = parse_fls_files(pIn, policy.ignore_ext_backup, policy.fix_subvols)
    /\ UNCHANGED <<policy, tsk, stat, cur, phase, tix, result, cmp, err,
                   tsk_files, tsk_inodes, ownTsk, ownStat, fskind, pIn, pTool,
                   setup_errors>>

NextFls == CallParseFls

SpecFls == InitFls /\ [][NextFls]_vars

\* the absolute names stat may print, and two lines that hold no name
StatNames ==
    { <<"/", "mnt", "/", "loop", "/", "a">>,
      <<"/", "mnt", "/", "loop", "/", "snapshot", "/", "a">>,
      <<"/", "mnt", "/", "loop", "/", "snapshot", "/", "subvolume", "/", "a">>,
      <<"/", "mnt", "/", "loop", "/", "subvolume", "snapshot">>,
      <<"/", "mnt", "/", "loop", "/", "ext2_saved", "/", "a">>,
      <<"/", "subvolume", "/", "a">>,
      <<"5">>, <<>> }

\* lines of stat -c '%n|%i|a|...', cut after the third field
StatLines == {Join(<<n, <<"5">>, <<"a">>>>, "|") : n \in StatNames}

\* the values of the parameter mpath
MountRoots ==
    { None, mpath, mpath \o <<"/", "snapshot">>, <<"/", "snapshot">> }

InitStat ==
    /\ Start(1, {pol \in Policies : pol.fix_size})
    /\ pIn \in [data : SeqsUpTo(StatLines, MaxLines), mpath : MountRoots]
    /\ pOut = NotRun
    /\ pTool = "stat"

\* a call of TextParser.parse_stat on the output pIn.data
CallParseStat ==
    /\ pTool = "stat"
    /\ pOut = NotRun
    /\ pOut' = parse_stat(pIn.data, pIn.mpath, policy.ignore_ext_backup,
                          policy.fix_subvols)
    /\ UNCHANGED <<policy, tsk, stat, cur, phase, tix, result, cmp, err,
                   tsk_files, tsk_inodes, ownTsk, ownStat, fskind, pIn, pTool,
                   setup_errors>>

\* what stands between hash and path in a line of the hash file: the one
\* space that __md5sum_image writes, the two spaces of md5sum(1)
Separators == { <<" ">>, <<" ", " ">> }

InitData ==
    /\ Start(1, {pol \in Policies : pol.fix_size})
    /\ \E fs \in ImageFileSeqs, sep \in Separators, t \in Trees :
          pIn = [image |-> fs, sep |-> sep,
                 hashfile |-> create_hashfile(fs, sep), tree |-> t]
    /\ pOut = NotRun
    /\ pTool = "filedata"

\* the body of TestBtrfs.test_filedata on the hash file and the recovered
\* tree of pIn
CallFiledata ==
    /\ pTool = "filedata"
    /\ pOut = NotRun
    /\ pOut' = filedata(pIn.hashfile, pIn.tree, policy.ignore_ext_backup,
                        policy.fix_subvols)
    /\ UNCHANGED <<policy, tsk, stat, cur, phase, tix, result, cmp, err,
                   tsk_files, tsk_inodes, ownTsk, ownStat, fskind, pIn, pTool,
                   setup_errors>>

\* lines of ils -a, cut after the ninth field: the inode, the allocation
\* letter, a field that tells the lines of one inode apart, five more
\* fields, the ninth field; the header line; a line that ends after the
\* second field
IlsLines ==
    {Join(<<<<i>>, <<"a">>, <<u>>, <<"0">>, <<"1">>, <<"1">>, <<"1">>, <<"1">>,
            <<m>>>>, "|") :
        i \in {"5", "6", "0", "00", "-1", "x"}, u \in {"0", "1000"},
        m \in {"7", "0"}}
    \cup {IlsHeader, <<"5", "|", "a">>}

InitIls ==
    /\ Start(1, {DefaultPolicy})
    /\ pIn \in SeqsUpTo(IlsLines, MaxLines)
    /\ pOut = NotRun
    /\ pTool = "ils"

\* a call of TextParser.parse_ils on the output pIn
CallParseIls ==
    /\ pTool = "ils"
    /\ pOut = NotRun
    /\ pOut' = parse_ils(pIn)
    /\ UNCHANGED <<policy, tsk, stat, cur, phase, tix, result, cmp, err,
                   tsk_files, tsk_inodes, ownTsk, ownStat, fskind, pIn, pTool,
                   setup_errors>>

\* entries of a file system, by their path below its root
RelNames ==
    { <<"a">>, <<"subvolume", "/", "a">>, <<"snapshot", "/", "a">>,
      <<"ext2_saved", "/", "a">>, <<"snapshot", "/", "subvolume", "/", "a">> }

\* directories the file system may be mounted on
MountPoints ==
    { mpath, <<"/", "mnt", "/", "snapshot">>, <<"/", "mnt", "/", "ext2_saved">> }

\* what stat prints for the entries when the file system is mounted on root
StatOutAt(entries, root) ==
    [k \in 1..Len(entries) |->
        Join(<<root \o <<"/">> \o entries[k], <<"5">>, <<"a">>>>, "|")]

\* what fls prints for the entries
FlsOutOf(entries) ==
    [k \in 1..Len(entries) |->
        Join(<<<<"0">>, <<"/">> \o entries[k], <<"5">>, <<"r", "/", "r">>>>, "|")]

InitRoots ==
    /\ Start(1, {pol \in Policies : pol.fix_size})
    /\ pIn \in [entries : SeqsUpTo(RelNames, MaxLines),
                 root1 : MountPoints, root2 : MountPoints]
    /\ pOut = NotRun
    /\ pTool = "roots"

\* the parsers of one image mounted on root1 and of the same image mounted
\* on root2: parse_stat on each stat output, parse_fls_files on the fls
\* output
CallParseRoots ==
    /\ pTool = "roots"
    /\ pOut = NotRun
    /\ pOut' = [exc |-> "none",
                first |-> parse_stat(StatOutAt(pIn.entries, pIn.root1),
                                     pIn.root1, policy.ignore_ext_backup,
                                     policy.fix_subvols),
                second |-> parse_stat(StatOutAt(pIn.entries, pIn.root2),
                                      pIn.root2, policy.ignore_ext_backup,
                                      policy.fix_subvols),
                fls |-> parse_fls_files(FlsOutOf(pIn.entries),
                                        policy.ignore_ext_backup,
                                        policy.fix_subvols)]
    /\ UNCHANGED <<policy, tsk, stat, cur, phase, tix, result, cmp, err,
                   tsk_files, tsk_inodes, ownTsk, ownStat, fskind, pIn, pTool,
                   setup_errors>>

\* the text functions called on their own
InitText == InitFls \/ InitStat \/ InitData \/ InitIls \/ InitRoots

NextText ==
    \/ CallParseFls
    \/ CallParseStat
    \/ CallFiledata
    \/ CallParseIls
    \/ CallParseRoots

SpecText == InitText /\ [][NextText]_vars

-----------------------------------------------------------------------------
(* ImageFactory and the set-up and tear-down on the files, on their own *)

KnownDirs == {ipath, rec_dir, <<"sub">>}

\* the world with the files fs and the directories ds, nothing mounted and
\* no loop device attached
World(fs, ds, u) ==
    [files |-> fs,
     dirs |-> ds \cup {MOUNT_PATH}
                 \cup {d \in KnownDirs : \E f \in fs : InDir(f, d)},
     mounted |-> None, loops |-> {}, uid |-> u, cmds |-> {}]

\* the image types create is called with; the last one is not supported
CreateTypes ==
    { <<"btrfs">>, <<"btrfs_", "raid", "1D">>, <<"ext2_btrfs">>, <<"ntfs">> }

\* files that may lie in the image directory before create is called
CreateFiles ==
    {path_join(ipath, n) :
        n \in Range(type_to_names(<<"btrfs">>))
              \cup Range(type_to_names(<<"btrfs_", "raid", "1D">>))}

InitCreate ==
    /\ Start(1, {DefaultPolicy})
    /\ pIn \in [w : {World(fs, ds, u) : fs \in SUBSET CreateFiles,
                                       ds \in SUBSET {ipath},
                                       u \in {0, 1000}},
                 imagetype : CreateTypes, size : {0, 5},
                 imagedir : {ipath, <<>>}, fail : CreateSteps]
    /\ pOut = NotRun
    /\ pTool = "create"

\* a call of ImageFactory.create
CallCreate ==
    /\ pTool = "create"
    /\ pOut = NotRun
    /\ pOut' = create(pIn.w, pIn.imagetype, pIn.size, pIn.imagedir, pIn.fail)
    /\ UNCHANGED <<policy, tsk, stat, cur, phase, tix, result, cmp, err,
                   tsk_files, tsk_inodes, ownTsk, ownStat, fskind, pIn, pTool,
                   setup_errors>>

\* the test classes: the image type and whether the image is a custom one
CustomImages ==
    { <<".", "/", "btrfs_custom.img">>, <<"sub", "/", "btrfs_custom.img">> }
Classes ==
    [imagetype : {<<"btrfs">>, <<"btrfs_", "raid", "1D">>}, custom : {FALSE}]
    \cup [imagetype : CustomImages, custom : {TRUE}]

\* files that may exist before a class is set up: images of the type and of
\* another type, custom images, and a file in the recovery directory
FilesBefore ==
    {path_join(ipath, n) : n \in Range(type_to_names(<<"btrfs">>))}
    \cup {path_join(ipath, type_to_names(<<"ext2_btrfs">>)[1])}
    \cup {FileAt(p) : p \in CustomImages}
    \cup {path_join(rec_dir, <<"old">>)}

InitSetUp ==
    /\ Start(1, {DefaultPolicy})
    /\ pIn \in [w : {World(fs, ds, 0) : fs \in SUBSET FilesBefore,
                                       ds \in SUBSET {rec_dir}},
                 class : Classes, fail : CreateSteps \cup SetupSteps]
    /\ pOut = NotRun
    /\ pTool = "setUpClass"

\* setUpClassCustom of test_btrfs.py on the world pIn.w, for the class
\* pIn.class
setUpClassCustom_files ==
    /\ pTool = "setUpClass"
    /\ pOut = NotRun
    /\ \E c \in {IF pIn.class.custom
                 THEN Ok([pIn.w EXCEPT !.dirs = @ \cup {ipath}], <<>>)
                 ELSE create([pIn.w EXCEPT !.dirs = @ \cup {ipath}],
                             pIn.class.imagetype, 5, ipath,
                             IF pIn.fail \in CreateSteps THEN pIn.fail
                             ELSE "none")} :
       \E files \in {IF pIn.class.custom
                     THEN <<pIn.class.imagetype,
                            pIn.class.imagetype \o <<".md5">>>>
                     ELSE [k \in 1..Len(c.ret) |-> path_join(ipath, c.ret[k])]},
          ip \in {IF pIn.class.custom THEN None ELSE ipath} :
       \E m \in {IF c.exc # "none" THEN c
                 ELSE IF "raid" \in Range(pIn.class.imagetype)
                 THEN mount_raid(c.w, pIn.class.imagetype, ip, mpath,
                                 pIn.fail = "setup_mount")
                 ELSE mount(c.w, pIn.class.imagetype, ip, mpath,
                            pIn.fail = "setup_mount")} :
       \E loopdev \in {IF "raid" \in Range(pIn.class.imagetype)
                          /\ m.exc = "none"
                       THEN m.ret ELSE None} :
       \E t \in {IF m.exc # "none" THEN m
                 ELSE setup_try(m.w, files, pIn.fail)} :
          pOut' = IF c.exc # "none"
                  THEN SetUpResult(c, <<>>, None, ipath, FALSE)
                  ELSE IF m.exc # "none"
                  THEN SetUpResult(m, files, None, ip, FALSE)
                  ELSE IF t.exc # "none"
                  THEN SetUpResult(setup_except(t), files, loopdev, ip, TRUE)
                  ELSE SetUpResult(t, files, loopdev, ip, TRUE)
    /\ UNCHANGED <<policy, tsk, stat, cur, phase, tix, result, cmp, err,
                   tsk_files, tsk_inodes, ownTsk, ownStat, fskind, pIn, pTool,
                   setup_errors>>

\* tearDownClassCustom of test_btrfs.py, after a set-up that raised nothing;
\* pIn becomes what it finds: the world, the class, self.loopdev and the
\* option keep_images
tearDownClassCustom_files ==
    /\ pTool = "setUpClass"
    /\ pOut.exc = "none"
    /\ pTool' = "tearDownClass"
    /\ \E keep_images \in BOOLEAN :
       \E u \in {IF "raid" \in Range(pIn.class.imagetype)
                 THEN umount_raid(pOut.w, pOut.loopdev)
                 ELSE umount(pOut.w)} :
       \E w1 \in {rmtree(u.w, rec_dir)} :
       \E d \in {IF ~keep_images /\ ~pIn.class.custom
                 THEN delete(w1, pIn.class.imagetype, ipath)
                 ELSE Ok(w1, <<>>)} :
          /\ pIn' = [w |-> pOut.w, class |-> pIn.class,
                     loopdev |-> pOut.loopdev, keep_images |-> keep_images]
          /\ pOut' = IF u.exc # "none" THEN u
                     ELSE IF d.exc # "none" THEN d
                     ELSE IF ~keep_images /\ ~pIn.class.custom
                     THEN Ok(rmtree(d.w, ipath), <<>>)
                     ELSE d
    /\ UNCHANGED <<policy, tsk, stat, cur, phase, tix, result, cmp, err,
                   tsk_files, tsk_inodes, ownTsk, ownStat, fskind,
                   setup_errors>>

InitImage == InitCreate \/ InitSetUp

NextImage ==
    \/ CallCreate
    \/ setUpClassCustom_files
    \/ tearDownClassCustom_files

SpecImage == InitImage /\ [][NextImage]_vars

-----------------------------------------------------------------------------
(* Properties *)

PathsOf(coll) == {line[1] : line \in coll}
PathA == S(<<"a">>)
PathBC == S(<<"b", "/", "c">>)

\* the test method has run in the current class and nothing ran after it
JustRan(name) == phase = "testing" /\ cmp.test = name

\* every test method of the current class has run
AllRan == phase = "testing" /\ tix > Len(TestOrder)

\* what a failed assertEqual of two sets shows: the items only in the first
\* and the items only in the second set
OnlyFirst == cmp.first \ cmp.second
OnlySecond == cmp.second \ cmp.first

\* C1: test_structure passes exactly when the forensic collection and the
\* stat collection have the same set of paths; when both have the paths a
\* and b/c it passes and the two differences are empty.
C1_StructureIffSamePaths ==
    JustRan("test_structure") =>
        /\ result["test_structure"] \in {"pass", "fail"}
        /\ result["test_structure"] = "pass" <=> PathsOf(tsk) = PathsOf(stat)
        /\ (PathsOf(tsk) = {PathA, PathBC} /\ PathsOf(stat) = {PathA, PathBC})
              => (result["test_structure"] = "pass"
                  /\ OnlyFirst = {} /\ OnlySecond = {})

C1_Witness ==
    /\ JustRan("test_structure")
    /\ PathsOf(tsk) = {PathA, PathBC}
    /\ PathsOf(stat) = {PathA, PathBC}
    /\ result["test_structure"] = "pass"

\* C2: the collections the checks of a class read hold only records of the
\* image of that class: every record of tsk and of stat was merged or parsed
\* from the tool output of the current image.
C2_OnlyOwnRecords ==
    phase = "testing" => (tsk \subseteq ownTsk /\ stat \subseteq ownStat)

\* the two collections give the same values of field k to the same paths
AgreeOn(k) ==
    /\ \A t \in tsk : \E s \in stat : s[1] = t[1] /\ s[k] = t[k]
    /\ \A s \in stat : \E t \in tsk : s[1] = t[1] /\ s[k] = t[k]

\* the field that each plain attribute check compares
CheckOf(k) ==
    CASE k = 4 -> "test_metadata_uid"    [] k = 5 -> "test_metadata_gid"
      [] k = 6 -> "test_metadata_mtime"  [] k = 7 -> "test_metadata_atime"
      [] k = 8 -> "test_metadata_ctime"  [] k = 9 -> "test_metadata_crtime"
      [] k = 10 -> "test_metadata_mode"  [] k = 11 -> "test_metadata_links"

\* the collections agree on the paths and on every field but field k
OnlyDiffers(k) ==
    /\ \A line \in tsk \cup stat : Len(line) = 12
    /\ PathsOf(tsk) = PathsOf(stat)
    /\ ~AgreeOn(k)
    /\ \A j \in (2..12) \ {k} : AgreeOn(j)

\* C3: when the collections agree on the paths and on every attribute but
\* one, the check of that attribute fails and the checks of the other
\* attributes among uid, gid, mtime, atime, ctime, crtime, mode, link count
\* and the structure check pass.
C3_ChecksIndependent ==
    AllRan =>
        \A k \in 2..12 :
            OnlyDiffers(k) =>
                /\ result["test_structure"] = "pass"
                /\ \A j \in 4..11 :
                      result[CheckOf(j)] = IF j = k THEN "fail" ELSE "pass"

C3_Witness ==
    /\ AllRan
    /\ OnlyDiffers(8)
    /\ result["test_metadata_ctime"] = "fail"
    /\ result["test_metadata_atime"] = "pass"

\* C4: test_metadata_uid fails exactly when the sets of (path, uid) pairs of
\* the two collections differ; with forensic (a, 1000) against stat (a, 0)
\* and nothing else different it fails and shows (a, 0) as only in the stat
\* set and (a, 1000) as only in the forensic set.
C4_UidCheck ==
    JustRan("test_metadata_uid") =>
        LET tu == {<<line[1], line[4]>> : line \in tsk}
            su == {<<line[1], line[4]>> : line \in stat}
        IN  /\ result["test_metadata_uid"] \in {"pass", "fail"}
            /\ result["test_metadata_uid"] = "fail" <=> tu # su
            /\ (/\ <<PathA, I(1000)>> \in tu
                /\ <<PathA, I(0)>> \in su
                /\ tu \ {<<PathA, I(1000)>>} = su \ {<<PathA, I(0)>>})
                  => (/\ result["test_metadata_uid"] = "fail"
                      /\ OnlyFirst = {<<PathA, I(0)>>}
                      /\ OnlySecond = {<<PathA, I(1000)>>})

C4_Witness ==
    /\ JustRan("test_metadata_uid")
    /\ result["test_metadata_uid"] = "fail"
    /\ OnlyFirst = {<<PathA, I(0)>>}
    /\ OnlySecond = {<<PathA, I(1000)>>}

\* the entries of the file listing whose inode the inode listing lacks
Unjoined ==
    {i \in 1..Len(tsk_files) : tsk_files[i][2][2] \notin DOMAIN tsk_inodes}

\* C5: when an entry of the file listing has an inode that is no key of the
\* inode listing, set-up fails with an error that names the inode and the
\* path of the entry.
C5_JoinErrorNamesInodeAndPath ==
    (phase = "failed" /\ err.type = "KeyError") =>
        \E i \in Unjoined :
            /\ tsk_files[i][2] \in Range(err.args)
            /\ tsk_files[i][1] \in Range(err.args)

\* C6: an entry of the file listing without inode record does not abort the
\* pass: the checks of the class run and the records of the other entries
\* are in the forensic collection.
C6_JoinErrorDoesNotAbort ==
    (phase # "idle" /\ Unjoined # {}) =>
        /\ phase = "testing"
        /\ \A i \in (1..Len(tsk_files)) \ Unjoined :
              tsk_files[i] \o tsk_inodes[tsk_files[i][2][2]] \in tsk

\* C7: test_metadata_inode ends with the comparison of the two sets, never
\* with an error, whatever istat printed.
C7_InodeCheckNeverErrors ==
    JustRan("test_metadata_inode") =>
        result["test_metadata_inode"] \in {"pass", "fail"}

\* the last component of the path of a line has one of the three tags
Tagged(line) ==
    LET parts == Split(line[1][2], "/")
    IN  \E w \in {"directory", "subvolume", "snapshot"} :
            w \in Range(parts[Len(parts)])

\* C8: with fix_size set, a stat record whose last path component is tagged
\* directory, subvolume or snapshot and whose size is N > 0 is in the
\* compared set with size 0 and not with size N.
C8_TaggedSizeZero ==
    (JustRan("test_metadata_size") /\ policy.fix_size
        /\ result["test_metadata_size"] # "error") =>
        \A line \in stat :
            (Tagged(line) /\ IsI(line[12]) /\ line[12][2] > 0) =>
                /\ <<line[1], I(0)>> \in cmp.first
                /\ <<line[1], line[12]>> \notin cmp.first

C8_Witness ==
    /\ JustRan("test_metadata_size")
    /\ policy.fix_size
    /\ \E line \in stat :
          /\ line[1] = S(<<"directory">>)
          /\ line[12] = I(5)
          /\ <<line[1], I(0)>> \in cmp.first

\* C9: the size of the stat record of a regular file is in the compared set
\* unchanged, whatever fix_size is and whatever the name of the file.
C9_RegularSizeUntouched ==
    (JustRan("test_metadata_size") /\ result["test_metadata_size"] # "error") =>
        \A line \in ownStat :
            fskind[line[1][2]] = "reg" => <<line[1], line[12]>> \in cmp.first

\* C10: no path that parse_fls_files returns is the path of an entry whose
\* name starts with "$", at whatever depth the entry is.
C10_NoMarkerNames ==
    pOut.exc = "none" =>
        \A i \in 1..Len(pOut.val) :
            LET parts == Split(pOut.val[i][1][2], "/")
            IN  parts[Len(parts)] = <<>> \/ parts[Len(parts)][1] # "$"

\* the word w is in the value v ("w in v" for a str, no word in an int)
HasWord(v, w) == ~IsI(v) /\ w \in Range(v[2])

\* the raw line names both snapshot and subvolume in its first field
BothInName(raw) ==
    LET name == Split(raw, "|")[1]
    IN  "snapshot" \in Range(name) /\ "subvolume" \in Range(name)

\* C11: with fix_subvols set, no path that parse_stat returns contains both
\* "snapshot" and "subvolume", whatever the lines and the mount root.
C11_StatNoSnapshotSubvolume ==
    (pTool = "stat" /\ policy.fix_subvols /\ pOut.exc = "none") =>
        \A i \in 1..Len(pOut.val) :
            ~(HasWord(pOut.val[i][1], "snapshot")
              /\ HasWord(pOut.val[i][1], "subvolume"))

C11_Witness ==
    /\ pTool = "stat"
    /\ policy.fix_subvols
    /\ pOut.exc = "none"
    /\ pIn.mpath = mpath
    /\ \E i \in 1..Len(pIn.data) : BothInName(pIn.data[i])
    /\ \E i \in 1..Len(pOut.val) : HasWord(pOut.val[i][1], "snapshot")

\* the lines of a tool output whose field k does not hold the word w
LinesWithout(data, k, w) ==
    {i \in 1..Len(data) :
        LET line == Split(data[i], "|")
        IN  Len(line) < k \/ w \notin Range(line[k])}

\* C12: with ignore_ext_backup set, a raw entry whose path holds ext2_saved
\* gives no record: the lists that parse_fls_files and parse_stat return and
\* the recovered-tree set of test_filedata hold no path with ext2_saved and
\* no more records than there are raw entries without it.
C12_NoExtBackup ==
    (policy.ignore_ext_backup /\ pOut.exc = "none") =>
        /\ pTool = "fls" =>
              /\ \A i \in 1..Len(pOut.val) :
                    ~HasWord(pOut.val[i][1], "ext2_saved")
              /\ Len(pOut.val) <= Cardinality(LinesWithout(pIn, 2, "ext2_saved"))
        /\ pTool = "stat" =>
              /\ \A i \in 1..Len(pOut.val) :
                    ~HasWord(pOut.val[i][1], "ext2_saved")
              /\ Len(pOut.val)
                    <= Cardinality(LinesWithout(pIn.data, 1, "ext2_saved"))
        /\ pTool = "filedata" =>
              /\ \A pr \in pOut.tsk : "ext2_saved" \notin Range(pr[1])
              /\ Cardinality(pOut.tsk)
                    <= Cardinality({f \in pIn.tree :
                                      "ext2_saved" \notin Range(f.path)})

C12_Witness ==
    /\ pTool = "stat"
    /\ policy.ignore_ext_backup
    /\ pOut.exc = "none"
    /\ Len(pIn.data) = 2
    /\ Cardinality(LinesWithout(pIn.data, 1, "ext2_saved")) = 1
    /\ Len(pOut.val) = 1

\* the two filters of the policy, as parse_fls_files and parse_stat test
\* them, on a path of a returned record
Excluded(v, ignore_ext_backup, fix_subvols) ==
    \/ fix_subvols /\ HasWord(v, "snapshot") /\ HasWord(v, "subvolume")
    \/ ignore_ext_backup /\ HasWord(v, "ext2_saved")

\* the records of a returned list that the filters of the policy keep
Renormalized(coll) ==
    SelectSeq(coll, LAMBDA r :
        ~Excluded(r[1], policy.ignore_ext_backup, policy.fix_subvols))

\* C13: the filters of the policy, applied to the list that parse_fls_files
\* or parse_stat returned under that policy, drop no record: the filtered
\* list is the returned list, with every path as it was.
C13_Idempotent ==
    (pTool \in {"fls", "stat"} /\ pOut.exc = "none") =>
        Renormalized(pOut.val) = pOut.val

C13_Witness ==
    /\ pTool = "fls"
    /\ pOut.exc = "none"
    /\ policy.fix_subvols
    /\ Len(pIn) = 2
    /\ Len(pOut.val) = 1
    /\ \E i \in 1..2 : /\ i \notin LinesWithout(pIn, 2, "snapshot")
                        /\ i \notin LinesWithout(pIn, 2, "subvolume")
    /\ Renormalized(pOut.val) = pOut.val

EmptyHash == <<"d41d8cd98f00b204e9800998ecf8427e">>
EmptyImageFile == [path |-> <<"empty_file">>, kind |-> "reg", content |-> ""]
EmptyTreeFile == [path |-> <<"empty_file">>, content |-> ""]

\* test_filedata has run on a hash file whose only file line is the hash of
\* the empty file, sep and "empty_file", and on a tree whose only file is
\* the empty file empty_file
ScenarioC(sep) ==
    /\ pTool = "filedata"
    /\ pOut # NotRun
    /\ pIn.image = <<EmptyImageFile>>
    /\ pIn.sep = sep
    /\ pIn.hashfile[1] = EmptyHash \o sep \o <<"empty_file", "\n">>
    /\ pIn.tree = {EmptyTreeFile}

\* the entry is read as (empty_file, hash) and the two sets are equal
ReadAndPassed ==
    /\ pOut.exc = "none"
    /\ <<<<"empty_file">>, EmptyHash>> \in pOut.stat
    /\ pOut.stat = pOut.tsk

\* C14 as stated: with the line "d41d8cd98f00b204e9800998ecf8427e  empty_file"
\* (two spaces) in the hash file and the empty file empty_file in the tree,
\* the entry is read as (empty_file, d41d8cd98f00b204e9800998ecf8427e) and
\* test_filedata passes.
C14_TwoSpaces == ScenarioC(<<" ", " ">>) => ReadAndPassed

\* C14 amended: with the line "d41d8cd98f00b204e9800998ecf8427e empty_file"
\* (one space, as the hash file is written) and the empty file empty_file
\* in the tree, the entry is read as (empty_file,
\* d41d8cd98f00b204e9800998ecf8427e) and test_filedata passes.
C14_OneSpace == ScenarioC(<<" ">>) => ReadAndPassed

C14_Witness == ScenarioC(<<" ">>) /\ ReadAndPassed

\* the files of the image that __md5sum_image wrote a line for
Hashed(fs) == {fs[i] : i \in {j \in 1..Len(fs) : fs[j].kind # "fifo"}}

\* C15: of a hash file as ImageFactory.create writes it, the set that
\* test_filedata reads holds one pair (path, hash) for each file line before
\* the line of dashes, with the path and the hash that were written, and
\* nothing for the line of dashes or the image line after it.
C15_ReadsFileLinesOnly ==
    (pTool = "filedata" /\ pOut # NotRun /\ pIn.sep = <<" ">>) =>
        /\ pOut.stat = {<<f.path, md5sum(f.content)>> : f \in Hashed(pIn.image)}
        /\ Cardinality(pOut.stat) = Len(pIn.hashfile) - 2

C15_Witness ==
    /\ pTool = "filedata"
    /\ pOut # NotRun
    /\ pIn.sep = <<" ">>
    /\ Len(pIn.hashfile) = 4
    /\ <<<<"a", " ", "b">>, md5sum("x")>> \in pOut.stat
    /\ <<<<"empty_file">>, EmptyHash>> \in pOut.stat

\* the path matches a filter of the policy
Filtered(path) ==
    Excluded(S(path), policy.ignore_ext_backup, policy.fix_subvols)

\* C16: test_filedata leaves the entries that a filter of the policy
\* matches out of both sets: when the hash file and the recovered tree agree
\* on every file that no filter matches, it passes.
C16_SameExclusionsBothSides ==
    (/\ pTool = "filedata"
     /\ pOut # NotRun
     /\ pIn.sep = <<" ">>
     /\ \A f \in pIn.tree : f.content # "unreadable" /\ f.path[1] # "$"
     /\ {<<f.path, md5sum(f.content)>> :
             f \in {g \in Hashed(pIn.image) : ~Filtered(g.path)}}
        = {<<f.path, md5sum(f.content)>> :
             f \in {g \in pIn.tree : ~Filtered(g.path)}})
    => (pOut.exc = "none" /\ pOut.stat = pOut.tsk)

\* no two records of the collection have the same path
UniquePaths(coll) == \A r1, r2 \in coll : r1[1] = r2[1] => r1 = r2

\* C17: while the checks of a class run, no two records of the forensic
\* collection and no two records of the stat collection have the same path
\* (tool output with two entries for one path has made set-up fail).
C17_PathsUnique ==
    phase = "testing" => (UniquePaths(tsk) /\ UniquePaths(stat))

\* the exceptions that the parsers raise on malformed tool output
ParseErrors == {"ValueError", "IndexError", "TypeError"}

\* the set-up of an earlier class of the suite ended with a parse error
ParseErrorBefore ==
    \E i \in 1..Len(setup_errors) :
        /\ setup_errors[i].class # Suite[cur]
        /\ setup_errors[i].type \in ParseErrors

\* C18: when the set-up of a class ends with a parse error, no check of that
\* class passes; and the structure check of a later class of the same run
\* gives the verdict of that class's own records: it passes exactly when
\* the records merged and parsed from its own image have the same paths.
C18_ParseErrorStaysLocal ==
    /\ phase = "failed" => \A t \in TestNames : result[t] # "pass"
    /\ (JustRan("test_structure") /\ ParseErrorBefore) =>
          (result["test_structure"] = "pass"
              <=> PathsOf(ownTsk) = PathsOf(ownStat))

\* the fields of the line of a symbolic link that parse_fls_files reads to
\* its end: type "l", a name that is no "$" name, a number as inode
LinkLine(raw) ==
    LET line == Split(raw, "|")
    IN  /\ Len(line) = 4
        /\ Len(line[4]) > 0 /\ line[4][1] = "l"
        /\ Len(line[2]) >= 2 /\ line[2][2] # "$"
        /\ IsInt(line[3])

\* the name of the link itself: the second field without its first
\* character, up to the first " -> " if there is one
OwnName(raw) ==
    LET field == Split(raw, "|")[2]
        name == Tail(field)
    IN  IF " -> " \in Range(name) THEN SubSeq(name, 1, Find(name, " -> "))
        ELSE name

\* C19: for the line of a symbolic link, the path that parse_fls_files
\* returns is the complete name of the link itself, whether the second field
\* holds " -> " and a target or not.
C19_LinkNameComplete ==
    (pTool = "fls" /\ pOut.exc = "none" /\ Len(pIn) = 1 /\ LinkLine(pIn[1])
        /\ Len(pOut.val) = 1) =>
        pOut.val[1][1] = S(OwnName(pIn[1]))

\* C20: parse_fls_files tests the filters on the path it returns: the line
\* of a symbolic link whose own name matches no filter gives a record, also
\* when the target of the link holds ext2_saved or snapshot and subvolume.
C20_FiltersOnResultingPath ==
    (pTool = "fls" /\ pOut.exc = "none") =>
        \A i \in 1..Len(pIn) :
            (/\ LinkLine(pIn[i])
             /\ " -> " \in Range(Split(pIn[i], "|")[2])
             /\ ~Filtered(OwnName(pIn[i]))) =>
                \E j \in 1..Len(pOut.val) : pOut.val[j][1][2] = OwnName(pIn[i])

\* the line has at least two fields, its name is no "$" name and no filter
\* of the policy matches its second field
PassesFlsFilters(raw) ==
    LET line == Split(raw, "|")
    IN  /\ Len(line) >= 2
        /\ ~(Len(line[2]) >= 2 /\ line[2][2] = "$")
        /\ ~Filtered(line[2])

\* the third field of the line is a number
InodeIsInt(raw) ==
    LET line == Split(raw, "|")
    IN  Len(line) >= 3 /\ IsInt(line[3])

\* C21: parse_fls_files raises exactly when some line passes all filters
\* and has a third field that is no integer; a line that a filter removes
\* and a line with fewer than two fields raise nothing.
C21_ErrorIffBadInode ==
    (pTool = "fls" /\ pOut # NotRun) =>
        (pOut.exc # "none"
            <=> \E i \in 1..Len(pIn) :
                    PassesFlsFilters(pIn[i]) /\ ~InodeIsInt(pIn[i]))

\* the first field of the line is a non-negative integer
FirstIsNat(raw) == IsDigit(Split(raw, "|")[1])

\* C22: the mapping that parse_ils returns has no key 0 and no entry whose
\* ninth field is "0", has a key only for inodes of lines whose first field
\* is a non-negative integer, and parse_ils raises on no input.
C22_IlsFiltersAndNeverRaises ==
    (pTool = "ils" /\ pOut # NotRun) =>
        /\ pOut.exc = "none"
        /\ 0 \notin DOMAIN pOut.val
        /\ \A k \in DOMAIN pOut.val :
              /\ pOut.val[k][8] # I(0)
              /\ \E i \in 1..Len(pIn) :
                    FirstIsNat(pIn[i]) /\ IntOf(Split(pIn[i], "|")[1][1]) = k

\* the lines of the listing that parse_ils accepts
Accepted(data) ==
    {i \in 1..Len(data) :
        LET line == Split(data[i], "|")
        IN  /\ IsDigit(line[1]) /\ line[1] # <<"0">>
            /\ Len(line) >= 9 /\ line[9] # <<"0">>}

\* C23: for each inode the mapping that parse_ils returns holds the fields
\* of the last accepted line with that inode, and it holds an entry for
\* every inode that an accepted line has.
C23_LastWriteWins ==
    (pTool = "ils" /\ pOut # NotRun /\ pOut.exc = "none") =>
        /\ \A i \in Accepted(pIn) :
              IntOf(Split(pIn[i], "|")[1][1]) \in DOMAIN pOut.val
        /\ \A k \in DOMAIN pOut.val :
              \E i \in Accepted(pIn) :
                 /\ IntOf(Split(pIn[i], "|")[1][1]) = k
                 /\ \A j \in Accepted(pIn) :
                       IntOf(Split(pIn[j], "|")[1][1]) = k => j <= i
                 /\ pOut.val[k] =
                       Tail([f \in 1..Len(Split(pIn[i], "|")) |->
                                Conv(Split(pIn[i], "|")[f])])

C23_Witness ==
    /\ pTool = "ils"
    /\ pOut # NotRun
    /\ pOut.exc = "none"
    /\ Accepted(pIn) = {1, 2}
    /\ DOMAIN pOut.val = {5}
    /\ Split(pIn[1], "|")[3] = <<"0">>
    /\ Split(pIn[2], "|")[3] = <<"1000">>
    /\ pOut.val[5][2] = I(1000)

\* the paths of the records of a returned list
PathsIn(list) == {list[i][1] : i \in 1..Len(list)}

\* C30: parse_stat returns the same set of relative paths for the same
\* entries under two mount roots, and that set is the set of paths that
\* parse_fls_files returns for the entries.
C30_MountRootIndependent ==
    (pTool = "roots" /\ pOut # NotRun) =>
        /\ PathsIn(pOut.first.val) = PathsIn(pOut.second.val)
        /\ PathsIn(pOut.first.val) = PathsIn(pOut.fls.val)

\* the image files of the call of create in pIn, with the directory
ImagePaths ==
    LET names == type_to_names(pIn.imagetype)
    IN  {FileAt(path_join(pIn.imagedir, names[k])) : k \in 1..(Len(names) - 1)}

\* create was called with a valid size, by root, on a directory that exists
CreateCalled ==
    /\ pTool = "create"
    /\ pOut # NotRun
    /\ pIn.size > 0
    /\ pIn.w.uid = 0
    /\ (pIn.imagedir = <<>> \/ FileAt(pIn.imagedir) \in pIn.w.dirs)

\* C24: when every image file of the type exists before the call, create
\* returns the names of the type and leaves the world as it was: no file
\* created or deleted, nothing mounted, no loop device attached, no command
\* run; when only some of them exist it raises ImageCreationError and every
\* file that existed still exists
C24_ExistingFilesKept ==
    CreateCalled =>
        /\ ImagePaths \subseteq pIn.w.files =>
              /\ pOut.exc = "none"
              /\ pOut.ret = type_to_names(pIn.imagetype)
              /\ pOut.w = pIn.w
        /\ (ImagePaths \cap pIn.w.files # {}
              /\ ~(ImagePaths \subseteq pIn.w.files)) =>
              /\ pOut.exc = ICE
              /\ pIn.w.files \subseteq pOut.w.files

C24_Witness ==
    /\ CreateCalled
    /\ "raid" \in Range(pIn.imagetype)
    /\ ImagePaths \subseteq pIn.w.files
    /\ pOut.exc = "none"

\* C25: after the set-up of a custom image the file mounted on the mount
\* point is the file that fls, ils and istat are given (self.files[0])
C25_MountedIsFileRead ==
    (/\ pTool = "setUpClass"
     /\ pOut # NotRun
     /\ pIn.class.custom
     /\ pOut.exc = "none")
    => pOut.w.mounted = FileAt(pOut.files[1])

\* C26: when the set-up raises after the image was mounted, nothing is
\* mounted any more, no loop device is attached, and a recovery directory
\* that did not exist before the set-up does not exist
C26_FailedSetUpReleases ==
    (/\ pTool = "setUpClass"
     /\ pOut # NotRun
     /\ pOut.exc # "none"
     /\ pOut.mounted)
    => /\ pOut.w.mounted = None
       /\ pOut.w.loops = {}
       /\ rec_dir \notin pIn.w.dirs => rec_dir \notin pOut.w.dirs

\* C27: when the set-up fails because the recovery directory exists, the
\* directory still exists afterwards, with the files it had
C27_ExistingRecDirKept ==
    (/\ pTool = "setUpClass"
     /\ pOut # NotRun
     /\ rec_dir \in pIn.w.dirs
     /\ pOut.exc = "Exception")
    => /\ rec_dir \in pOut.w.dirs
       /\ {f \in pOut.w.files : InDir(f, rec_dir)}
            = {f \in pIn.w.files : InDir(f, rec_dir)}

\* C28: the tear-down of a generated image with keep_images false removes
\* from the image directory only files of the type under test, and the
\* tear-down of a custom image removes no file outside the recovery directory
C28_RemovesOwnFilesOnly ==
    (pTool = "tearDownClass") =>
        /\ (~pIn.class.custom /\ ~pIn.keep_images) =>
              {f \in pIn.w.files : InDir(f, ipath)} \ pOut.w.files
                \subseteq {path_join(ipath, n) :
                             n \in Range(type_to_names(pIn.class.imagetype))}
        /\ pIn.class.custom =>
              {f \in pIn.w.files : ~InDir(f, rec_dir)} \subseteq pOut.w.files

\* the steps of create after the image files are created
LaterSteps == {"format", "mount", "files", "convert", "chown", "hash"}

\* C29: when a step of create after the creation of the image files fails,
\* no loop device stays attached, none of the image files exists, and the
\* exception that leaves create is the one of the failed step
C29_FailureCleansUpAndKeepsError ==
    (/\ CreateCalled
     /\ ImagePaths \cap pIn.w.files = {}
     /\ pIn.fail \in LaterSteps
     /\ create_try(pIn.w, pIn.imagetype, pIn.imagedir, pIn.fail).exc # "none")
    => /\ pOut.w.loops = {}
       /\ ImagePaths \cap pOut.w.files = {}
       /\ pOut.exc = ICE
       /\ pOut.msg = create_try(pIn.w, pIn.imagetype, pIn.imagedir,
                                pIn.fail).msg

====
